---- MODULE Spec2Model ----
(***************************************************************************)
(* Model of src/extension/cargo.ts: the Cargo class that runs the build    *)
(* tool, reads its line-delimited JSON stream, collects compilation        *)
(* artifacts, resolves the one program to debug, and derives launch        *)
(* configurations from `cargo metadata`.  The process-wide log channel     *)
(* `output` is written and never read, and is left out.                    *)
(*                                                                         *)
(* Values.  A string the code takes apart (a file path tested with         *)
(* endsWith, a stdout line tested with startsWith, a text whose newlines   *)
(* are replaced, a template string) is a sequence of tokens; a string the  *)
(* code only compares or copies is a TLA+ string.  JavaScript `undefined`  *)
(* and `null` are the tagged values Undefined and Null.                    *)
(***************************************************************************)
EXTENDS Integers, Sequences, FiniteSets, TLC

VARIABLES
    \* ---- getProgramFromCargoConfig (lines 41-101)
    pc,             \* position of getProgramFromCargoConfig
    configArgs,     \* cargoConfig.args, the caller's argument list
    taskArgs,       \* taskDef.args, the argument list the task callback sees
    filter,         \* cargoConfig.filter
    taskArtifacts,  \* the closure variable `artifacts` (line 45): the initial [],
                    \* the array getCargoArtifacts returned, or an Error
    taskState,      \* the custom execution: "created", "open", "done", "ended"
    doneCode,       \* the value passed to doneEmitter.fire (-1 before it fires)
    listener,       \* TRUE once tasks.onDidEndTask has been subscribed (line 90)
    terminal,       \* every text passed to outputEmitter.fire, in order
    program,        \* outcome of getProgramFromCargoConfig
    \* ---- getCargoArtifacts (lines 134-178)
    artifacts,      \* the local accumulator `artifacts` (line 140)
    sink,           \* every text passed to the onMessage callback, in order
    \* ---- runCargo (lines 282-328) and the child process it listens to
    proc,           \* "none", "running", "failed", "errored", "exited", "closed",
                    \* "closedThenErrored"
    spawnArgs,      \* the argument vector the process was spawned with
    spawned,        \* the argument vector of every cp.spawn call so far, in order
    spawnError,     \* the code of the spawn failure, when proc is "failed"
    exitCode,       \* exit code of the process (Null when killed by a signal)
    stdoutSent,     \* every stdout line the process has written, in order
    stdoutRead,     \* how many of them readline has delivered as 'line' events
    stderrSent,     \* every stderr chunk the process has written, in order
    stderrRead,     \* how many of them have been delivered as 'data' events
    promise,        \* the promise returned by runCargo
    callbacks,      \* whose callbacks runCargo was given: its caller
    uncaught,       \* errors thrown out of an event listener (none is caught above it)
    cancelled,      \* TRUE once cancellation has been requested
    sigints,        \* number of SIGINT signals sent with cargo.kill
    \* ---- getLaunchConfigs (lines 180-279)
    directory,      \* the `directory` parameter
    metadata,       \* the local `metadata` (line 190)
    launch,         \* outcome of getLaunchConfigs
    \* ---- one compiler-artifact message in both schemas
    buildOut,       \* the build output a compiler-artifact message describes
    newArts,        \* artifacts collected from its new-schema message
    oldArts,        \* artifacts collected from its old-schema message
    fed             \* which of the two messages have been handled

programVars == <<pc, configArgs, taskArgs, filter, taskArtifacts, taskState, doneCode,
                 listener, terminal, program>>
collectVars == <<artifacts, sink>>
procVars    == <<proc, spawnArgs, spawned, spawnError, exitCode, stdoutSent, stdoutRead,
                 stderrSent, stderrRead, promise, callbacks, uncaught, cancelled,
                 sigints>>
launchVars  == <<directory, metadata, launch>>
schemaVars  == <<buildOut, newArts, oldArts, fed>>
vars == <<programVars, collectVars, procVars, launchVars, schemaVars>>

----------------------------------------------------------------------------
(* Bounds of the model *)

MaxArtifacts == 3   \* longest candidate list handed to getProgramFromArtifacts
MaxFiles     == 2   \* longest filenames list of a compiler-artifact message
MaxLines     == 2   \* most stdout lines the process writes in one run
MaxChunks    == 1   \* most stderr chunks the process writes in one run
MaxKinds     == 3   \* longest kind list of a target in a metadata document
MaxRuns      == 2   \* most calls of getProgramFromCargoConfig with one configuration
MaxArgs      == 3   \* longest caller-supplied argument list

----------------------------------------------------------------------------
(* JavaScript values *)

Undefined == [tag |-> "undefined", val |-> <<>>]
Null      == [tag |-> "null", val |-> <<>>]
Str(s)    == [tag |-> "string", val |-> s]

\* Array.prototype.includes / indexOf on a sequence
Includes(seq, x) == \E i \in 1..Len(seq) : seq[i] = x

\* seq[i] of JavaScript (zero-based i): undefined past the end
At(seq, i) == IF i + 1 \in 1..Len(seq) THEN Str(seq[i + 1]) ELSE Undefined

\* String.prototype.endsWith on a token sequence
EndsWith(path, suffix) ==
    /\ Len(path) >= Len(suffix)
    /\ SubSeq(path, Len(path) - Len(suffix) + 1, Len(path)) = suffix

DSYM == <<".dSYM">>

\* all sequences over S of length at most n
SeqUpTo(S, n) == UNION {[1..k -> S] : k \in 0..n}

Range(seq) == {seq[i] : i \in 1..Len(seq)}

----------------------------------------------------------------------------
(* getProgramFromArtifacts (lines 103-131) *)

\* the filter callback of lines 110-116; `!= undefined` is loose, so null counts as unset
FilterKeeps(f, a) ==
    /\ ~(f.name.tag = "string" /\ Str(a.name) # f.name)
    /\ ~(f.kind.tag = "string" /\ a.kind # f.kind)

Ok(v)    == [status |-> "ok", value |-> v]
Fail(e)  == [status |-> "error", value |-> e]
Pending  == [status |-> "pending", value |-> <<>>]

\* an Error: its message, its `code` property ("" when it has none) and its causes
Error(message)               == [message |-> message, code |-> "", causes |-> <<>>]
SystemError(code)            == [message |-> "spawn", code |-> code, causes |-> <<>>]
ErrorWithCause(message, err) ==
    [message |-> message, code |-> "",
     causes  |-> <<[message |-> err.message, code |-> err.code]>> \o err.causes]

NoMatchError   == Error("Cargo has produced no matching compilation artifacts.")
AmbiguousError == Error("Cargo has produced more than one matching compilation artifact.")

\* faulty variant: the length check of line 126 is missing, the first match is returned
getProgramFromArtifactsFirst(arts, f) ==
    LET kept == IF f.present THEN SelectSeq(arts, LAMBDA a : FilterKeeps(f, a)) ELSE arts
    IN  IF Len(kept) = 0 THEN Fail(NoMatchError) ELSE Ok(kept[1].fileName)

getProgramFromArtifacts(arts, f) ==
    LET kept == IF f.present THEN SelectSeq(arts, LAMBDA a : FilterKeeps(f, a)) ELSE arts
    IN  IF Len(kept) = 0 THEN Fail(NoMatchError)
        ELSE IF Len(kept) > 1 THEN Fail(AmbiguousError)
        ELSE Ok(kept[1].fileName)

----------------------------------------------------------------------------
(* The onStdoutJson callback of getCargoArtifacts (lines 143-171) *)

\* faulty variant: isBinary is read from target.kind instead of target.crate_types
CollectsByKind(message) ==
    LET isBinary      == Includes(message.target.kind, "bin")
        isBuildScript == Includes(message.target.kind, "custom-build")
    IN  (isBinary /\ ~isBuildScript) \/ message.profile.test

\* lines 145-147: (isBinary && !isBuildScript) || message.profile.test
Collects(message) ==
    LET isBinary      == Includes(message.target.crate_types, "bin")
        isBuildScript == Includes(message.target.kind, "custom-build")
    IN  (isBinary /\ ~isBuildScript) \/ message.profile.test

\* faulty variant: the .dSYM test of lines 158-159 is missing
RECURSIVE FilenameArtifactsAll(_, _)
FilenameArtifactsAll(message, i) ==
    IF i >= Len(message.filenames) THEN <<>>
    ELSE <<[fileName |-> message.filenames[i + 1],
            name     |-> message.target.name,
            kind     |-> At(message.target.kind, i)]>>
         \o FilenameArtifactsAll(message, i + 1)

\* faulty variant: line 163 reads the kind at the number of artifacts pushed so far by this
\* message (n) instead of the index of the file
RECURSIVE FilenameArtifactsPacked(_, _, _)
FilenameArtifactsPacked(message, i, n) ==
    IF i >= Len(message.filenames) THEN <<>>
    ELSE IF EndsWith(message.filenames[i + 1], DSYM)
         THEN FilenameArtifactsPacked(message, i + 1, n)
         ELSE <<[fileName |-> message.filenames[i + 1],
                 name     |-> message.target.name,
                 kind     |-> At(message.target.kind, n)]>>
              \o FilenameArtifactsPacked(message, i + 1, n + 1)

FilenameArtifactsByCount(message, i) == FilenameArtifactsPacked(message, i, 0)

\* lines 157-165: the loop over message.filenames, from zero-based index i
RECURSIVE FilenameArtifacts(_, _)
FilenameArtifacts(message, i) ==
    IF i >= Len(message.filenames) THEN <<>>
    ELSE IF EndsWith(message.filenames[i + 1], DSYM)
         THEN FilenameArtifacts(message, i + 1)
         ELSE <<[fileName |-> message.filenames[i + 1],
                 name     |-> message.target.name,
                 kind     |-> At(message.target.kind, i)]>>
              \o FilenameArtifacts(message, i + 1)

\* lines 144-167: what one compiler-artifact message pushes
ArtifactsOf(message) ==
    IF ~Collects(message) THEN <<>>
    ELSE IF message.executable # Undefined
         THEN IF message.executable # Null
              THEN <<[fileName |-> message.executable.val,
                      name     |-> message.target.name,
                      kind     |-> At(message.target.kind, 0)]>>
              ELSE <<>>
         ELSE FilenameArtifacts(message, 0)

\* lines 143-171: the callback's effect on the accumulator (push) and on onMessage (say)
OnCargoMessage(message) ==
    IF message.reason = "compiler-artifact"
    THEN [push |-> ArtifactsOf(message), say |-> <<>>]
    ELSE IF message.reason = "compiler-message"
         THEN [push |-> <<>>, say |-> <<message.rendered>>]
         ELSE [push |-> <<>>, say |-> <<>>]

\* the messages cargo writes (section 6 of spec.md names the fields the code reads)
CompilerArtifact(name, kind, crate_types, test, executable, filenames) ==
    [reason     |-> "compiler-artifact",
     target     |-> [name |-> name, kind |-> kind, crate_types |-> crate_types],
     profile    |-> [test |-> test],
     executable |-> executable,
     filenames  |-> filenames,
     rendered   |-> <<>>]

CompilerMessage(rendered) ==
    [reason     |-> "compiler-message",
     target     |-> [name |-> "", kind |-> <<>>, crate_types |-> <<>>],
     profile    |-> [test |-> FALSE],
     executable |-> Undefined,
     filenames  |-> <<>>,
     rendered   |-> rendered]

BuildFinished ==
    [reason     |-> "build-finished",
     target     |-> [name |-> "", kind |-> <<>>, crate_types |-> <<>>],
     profile    |-> [test |-> FALSE],
     executable |-> Undefined,
     filenames  |-> <<>>,
     rendered   |-> <<>>]

----------------------------------------------------------------------------
(* runCargo (lines 282-328) *)

\* a stdout line: its text, and what JSON.parse makes of that text
JsonLine(text, value) == [text |-> text, json |-> Ok(value)]
TextLine(text)        == [text |-> text, json |-> Fail(Error("SyntaxError"))]

\* line 308: line.startsWith('{')
StartsWithBrace(line) == Len(line.text) >= 1 /\ line.text[1] = "{"

\* faulty variant: the startsWith test of line 308 is missing
OnLineUnguarded(line) ==
    IF line.json.status = "ok"
    THEN [pass |-> <<line.json.value>>, raise |-> <<>>]
    ELSE [pass |-> <<>>, raise |-> <<>>]

\* faulty variant: the try/catch of lines 310-315 is missing, the SyntaxError leaves the listener
OnLineNoCatch(line) ==
    IF StartsWithBrace(line)
    THEN IF line.json.status = "ok"
         THEN [pass |-> <<line.json.value>>, raise |-> <<>>]
         ELSE [pass |-> <<>>, raise |-> <<line.json.value>>]
    ELSE [pass |-> <<>>, raise |-> <<>>]

\* lines 307-318, the 'line' listener: the value it passes to onStdoutJson (none or
\* one), and the error it throws (none: the SyntaxError is caught and logged)
OnLine(line) ==
    IF StartsWithBrace(line)
    THEN IF line.json.status = "ok"
         THEN [pass |-> <<line.json.value>>, raise |-> <<>>]
         ELSE [pass |-> <<>>, raise |-> <<>>]
    ELSE [pass |-> <<>>, raise |-> <<>>]

\* faulty variant: the exit code is reported on 'exit' instead of 'close'
ProcessListenersOnExit == [error |-> "reject", exit |-> "resolve", close |-> "none"]

\* lines 300 and 320: the listeners runCargo puts on the child process
ProcessListeners == [error |-> "reject", exit |-> "none", close |-> "resolve"]

Num(n) == [tag |-> "number", val |-> n]

\* line 294: child_process.spawn takes a missing argument list as an empty one
SpawnArgv(args) == IF args.present THEN args.list ELSE <<>>

----------------------------------------------------------------------------
(* getLaunchConfigs (lines 180-279) *)

\* lines 181-188
DEFAULT_LAUNCH_CONFIGS ==
    <<[type    |-> "lldb",
       request |-> "launch",
       name    |-> <<"Debug">>,
       program |-> "${workspaceFolder}/<executable file>",
       args    |-> <<>>,
       cwd     |-> "${workspaceFolder}"]>>

\* line 195
MetadataArgs == [present |-> TRUE, list |-> <<"metadata", "--no-deps", "--format-version=1">>]

\* `if (directory)`: undefined and the empty string are falsy
Truthy(v) == v.tag = "string" /\ v.val # ""

\* faulty variant: line 231 assigns the directory to config.cwd instead of config.cargo.cwd
addConfigCwdOverride(pkg, dir, name, cargo_args, f) ==
    [type    |-> "lldb",
     request |-> "launch",
     name    |-> name,
     cargo   |-> [args   |-> Append(cargo_args, <<"--package=", pkg.name>>),
                  filter |-> f,
                  cwd    |-> Undefined],
     args    |-> <<>>,
     cwd     |-> IF Truthy(dir) THEN dir.val ELSE "${workspaceFolder}"]

\* lines 218-233: the descriptor addConfig pushes
addConfig(pkg, dir, name, cargo_args, f) ==
    [type    |-> "lldb",
     request |-> "launch",
     name    |-> name,
     cargo   |-> [args   |-> Append(cargo_args, <<"--package=", pkg.name>>),
                  filter |-> f,
                  cwd    |-> IF Truthy(dir) THEN dir ELSE Undefined],
     args    |-> <<>>,
     cwd     |-> "${workspaceFolder}"]

LibraryKinds == {"lib", "rlib", "staticlib", "dylib", "cstaticlib"}

TargetFilter(target, kind) == [present |-> TRUE, name |-> Str(target.name), kind |-> Str(kind)]

\* faulty variant: for bin and example the two addConfig calls of lines 256-261 are swapped
KindConfigsTestsFirst(pkg, dir, target, kind, libAdded) ==
    IF kind \in LibraryKinds
    THEN IF ~libAdded
         THEN <<addConfig(pkg, dir, <<"Debug unit tests in library '", target.name, "'">>,
                          <<<<"test">>, <<"--no-run">>, <<"--lib">>>>,
                          TargetFilter(target, "lib"))>>
         ELSE <<>>
    ELSE IF kind \in {"bin", "example"}
    THEN LET prettyKind == IF kind = "bin" THEN "executable" ELSE kind
         IN  <<addConfig(pkg, dir,
                         <<"Debug unit tests in ", prettyKind, " '", target.name, "'">>,
                         <<<<"test">>, <<"--no-run">>, <<"--", kind, "=", target.name>>>>,
                         TargetFilter(target, kind)),
               addConfig(pkg, dir, <<"Debug ", prettyKind, " '", target.name, "'">>,
                         <<<<"build">>, <<"--", kind, "=", target.name>>>>,
                         TargetFilter(target, kind))>>
    ELSE IF kind \in {"bench", "test"}
    THEN LET prettyKind == IF kind = "bench" THEN "benchmark" ELSE "integration test"
         IN  <<addConfig(pkg, dir, <<"Debug ", prettyKind, " '", target.name, "'">>,
                         <<<<"test">>, <<"--no-run">>, <<"--", kind, "=", target.name>>>>,
                         TargetFilter(target, kind))>>
    ELSE <<>>

\* lines 238-274: the descriptors one kind of a target adds
KindConfigs(pkg, dir, target, kind, libAdded) ==
    IF kind \in LibraryKinds
    THEN IF ~libAdded
         THEN <<addConfig(pkg, dir, <<"Debug unit tests in library '", target.name, "'">>,
                          <<<<"test">>, <<"--no-run">>, <<"--lib">>>>,
                          TargetFilter(target, "lib"))>>
         ELSE <<>>
    ELSE IF kind \in {"bin", "example"}
    THEN LET prettyKind == IF kind = "bin" THEN "executable" ELSE kind
         IN  <<addConfig(pkg, dir, <<"Debug ", prettyKind, " '", target.name, "'">>,
                         <<<<"build">>, <<"--", kind, "=", target.name>>>>,
                         TargetFilter(target, kind)),
               addConfig(pkg, dir,
                         <<"Debug unit tests in ", prettyKind, " '", target.name, "'">>,
                         <<<<"test">>, <<"--no-run">>, <<"--", kind, "=", target.name>>>>,
                         TargetFilter(target, kind))>>
    ELSE IF kind \in {"bench", "test"}
    THEN LET prettyKind == IF kind = "bench" THEN "benchmark" ELSE "integration test"
         IN  <<addConfig(pkg, dir, <<"Debug ", prettyKind, " '", target.name, "'">>,
                         <<<<"test">>, <<"--no-run">>, <<"--", kind, "=", target.name>>>>,
                         TargetFilter(target, kind))>>
    ELSE <<>>

\* lines 236-275: the loop over target.kind from index i (one-based), with libAdded
RECURSIVE TargetConfigs(_, _, _, _, _)
TargetConfigs(pkg, dir, target, i, libAdded) ==
    IF i > Len(target.kind) THEN <<>>
    ELSE KindConfigs(pkg, dir, target, target.kind[i], libAdded)
         \o TargetConfigs(pkg, dir, target, i + 1,
                          libAdded \/ target.kind[i] \in LibraryKinds)

\* faulty variant: libAdded is declared outside the loop over pkg.targets (line 236 moved
\* up), so one library target silences the next
RECURSIVE PackageConfigsSharedFlag(_, _, _)
PackageConfigsSharedFlag(pkg, dir, i) ==
    IF i > Len(pkg.targets) THEN <<>>
    ELSE TargetConfigs(pkg, dir, pkg.targets[i], 1,
                       \E j \in 1..(i - 1) :
                           \E k \in 1..Len(pkg.targets[j].kind) :
                               pkg.targets[j].kind[k] \in LibraryKinds)
         \o PackageConfigsSharedFlag(pkg, dir, i + 1)

\* lines 235-276: the loop over pkg.targets
RECURSIVE PackageConfigs(_, _, _)
PackageConfigs(pkg, dir, i) ==
    IF i > Len(pkg.targets) THEN <<>>
    ELSE TargetConfigs(pkg, dir, pkg.targets[i], 1, FALSE) \o PackageConfigs(pkg, dir, i + 1)

\* lines 216-278: the loop over metadata.packages
RECURSIVE MetadataConfigs(_, _, _)
MetadataConfigs(doc, dir, i) ==
    IF i > Len(doc.packages) THEN <<>>
    ELSE PackageConfigs(doc.packages[i], dir, 1) \o MetadataConfigs(doc, dir, i + 1)

Object(v) == [tag |-> "object", val |-> v]

NoMetadataError == Error("Cargo has produced no metadata")

\* faulty variant: a non-zero exit code is not told from success (line 210 missing)
LaunchOutcomeIgnoringExit(settled, meta, dir) ==
    IF settled.status = "error"
    THEN IF settled.value.code = "ENOENT"
         THEN Ok(DEFAULT_LAUNCH_CONFIGS)
         ELSE Fail(settled.value)
    ELSE IF meta = Null
         THEN Fail(NoMetadataError)
         ELSE Ok(MetadataConfigs(meta.val, dir, 1))

\* faulty variant: the metadata check of line 213 comes before the exit-code check of line 210
LaunchOutcomeMetadataFirst(settled, meta, dir) ==
    IF settled.status = "error"
    THEN IF settled.value.code = "ENOENT"
         THEN Ok(DEFAULT_LAUNCH_CONFIGS)
         ELSE Fail(settled.value)
    ELSE IF meta = Null
         THEN Fail(NoMetadataError)
         ELSE IF settled.value # Num(0)
              THEN Ok(DEFAULT_LAUNCH_CONFIGS)
              ELSE Ok(MetadataConfigs(meta.val, dir, 1))

\* lines 201-278: what getLaunchConfigs returns or throws once runCargo has settled;
\* `exitCode != 0` is loose, and null (killed by a signal) is not equal to 0
LaunchOutcome(settled, meta, dir) ==
    IF settled.status = "error"
    THEN IF settled.value.code = "ENOENT"
         THEN Ok(DEFAULT_LAUNCH_CONFIGS)
         ELSE Fail(settled.value)
    ELSE IF settled.value # Num(0)
         THEN Ok(DEFAULT_LAUNCH_CONFIGS)
         ELSE IF meta = Null
              THEN Fail(NoMetadataError)
              ELSE Ok(MetadataConfigs(meta.val, dir, 1))

----------------------------------------------------------------------------
(* getProgramFromCargoConfig (lines 41-101): pure parts *)

AbsentArgs    == [present |-> FALSE, list |-> <<>>]
ArgList(list) == [present |-> TRUE, list |-> list]

\* Array.prototype.indexOf, zero-based, -1 when absent
IndexOf(seq, x) ==
    IF Includes(seq, x)
    THEN (CHOOSE i \in 1..Len(seq) : seq[i] = x /\ \A j \in 1..(i - 1) : seq[j] # x) - 1
    ELSE -1

\* Array.prototype.splice(start, 0, ...items)
Splice(seq, start, items) ==
    SubSeq(seq, 1, start) \o items \o SubSeq(seq, start + 1, Len(seq))

InsertedFlags == <<"--message-format=json", "--color=always">>

\* faulty variant: taskDef is the caller's cargoConfig object itself, the splice of line 59
\* changes the caller's list
CallerArgsAliased(own, resolved) == resolved

\* lines 52-59: taskDef is the resolved definition the host hands to the callback, an
\* object of its own, so the splice leaves the list of the caller's cargoConfig alone
CallerArgs(own, resolved) == own

\* lines 57-59: insert either before "--" or at the end
WithFlags(cargoArgs) ==
    LET pos == IndexOf(cargoArgs, "--")
    IN  Splice(cargoArgs, IF pos >= 0 THEN pos ELSE Len(cargoArgs), InsertedFlags)

\* line 61: the text "Running cargo <arguments>..." and a line break
Banner(cargoArgs) == <<"Running cargo ">> \o cargoArgs \o <<"...", "CRLF">>

\* lines 66 and 72: every newline of the message replaced by CR LF
ReplaceNewline(text) ==
    [i \in 1..Len(text) |-> IF text[i] = "LF" THEN "CRLF" ELSE text[i]]

\* formatError of ./novsc/error (line 71): the message, then one line for each cause
RECURSIVE CauseLines(_, _)
CauseLines(causes, i) ==
    IF i > Len(causes) THEN <<>>
    ELSE <<"LF", "Caused by: ", causes[i].message, causes[i].code>> \o CauseLines(causes, i + 1)

formatError(err) == <<err.message>> \o CauseLines(err.causes, 1)

NoError == Error("")

InitialArtifacts   == [tag |-> "initial", error |-> NoError]
CollectedArtifacts == [tag |-> "collected", error |-> NoError]
FailedArtifacts(e) == [tag |-> "error", error |-> e]

\* the array the closure variable `artifacts` refers to: after line 62 it is the very
\* array getCargoArtifacts accumulates into
TaskArtifactList == IF taskArtifacts.tag = "initial" THEN <<>> ELSE artifacts

\* lines 97-100
ReturnValue ==
    IF taskArtifacts.tag = "error"
    THEN Fail(ErrorWithCause("Cargo task failed.", taskArtifacts.error))
    ELSE getProgramFromArtifacts(TaskArtifactList, filter)

----------------------------------------------------------------------------
(* What the process may write *)

FooPath == <<"target/debug/", "foo">>
BarPath == <<"target/debug/deps/", "bar-1234">>

PlainLine     == TextLine(<<"   Compiling foo v0.1.0">>)
MalformedLine == TextLine(<<"{", "\"reason\":\"compiler-art">>)
IndentedLine  == JsonLine(<<" ", "{", "\"reason\":\"compiler-message\"", "}">>,
                          CompilerMessage(<<"warning: indented">>))
ArtifactLine  == JsonLine(<<"{", "\"reason\":\"compiler-artifact\"", "foo", "}">>,
                          CompilerArtifact("foo", <<"bin">>, <<"bin">>, FALSE,
                                           Str(FooPath), <<FooPath>>))
TestLine      == JsonLine(<<"{", "\"reason\":\"compiler-artifact\"", "bar", "}">>,
                          CompilerArtifact("bar", <<"lib">>, <<"lib">>, TRUE,
                                           Str(BarPath), <<BarPath>>))
MessageLine   == JsonLine(<<"{", "\"reason\":\"compiler-message\"", "}">>,
                          CompilerMessage(<<"warning: unused", "LF", " --> src/main.rs">>))
FinishedLine  == JsonLine(<<"{", "\"reason\":\"build-finished\"", "}">>, BuildFinished)

BuildLines == {PlainLine, MalformedLine, IndentedLine, ArtifactLine, TestLine,
               MessageLine, FinishedLine}

DemoMetadata ==
    [packages |-> <<[name    |-> "demo",
                     targets |-> <<[name |-> "demo", kind |-> <<"lib", "staticlib">>],
                                   [name |-> "demo", kind |-> <<"bin">>]>>]>>]
EmptyMetadata == [packages |-> <<>>]

MetadataLines == {PlainLine, MalformedLine,
                  JsonLine(<<"{", "\"packages\":[", "demo", "]}">>, DemoMetadata),
                  JsonLine(<<"{", "\"packages\":[", "]}">>, EmptyMetadata)}

\* a second diagnostic, and what `cargo test --no-run` writes
NoteLine      == JsonLine(<<"{", "\"reason\":\"compiler-message\"", "note", "}">>,
                          CompilerMessage(<<"note: see issue">>))

TestBuildLines == {PlainLine, ArtifactLine, TestLine, MessageLine, NoteLine}

StdoutLines ==
    IF callbacks = "getCargoArtifacts"
    THEN IF Includes(spawnArgs, "test") THEN TestBuildLines ELSE BuildLines
    ELSE MetadataLines

StderrChunks == {<<"error: could not compile", "LF">>}

SpawnErrors == {"ENOENT", "EACCES"}

ExitCodes == {Num(0), Num(101), Null}

----------------------------------------------------------------------------
(* runCargo: the promise and the callers that await it *)

\* faulty variant: a missing executable is swallowed as it is in getLaunchConfigs (line 203),
\* the build counts as done with nothing collected
OpenResumesNotFoundTolerated(settled) ==
    IF settled.status = "ok" \/ settled.value.code = "ENOENT"
    THEN /\ taskArtifacts' = CollectedArtifacts
         /\ doneCode' = 0
         /\ taskState' = "done"
         /\ terminal' = terminal
    ELSE LET err == ErrorWithCause("Cargo invocation failed.", settled.value)
         IN  /\ taskArtifacts' = FailedArtifacts(err)
             /\ terminal' = Append(terminal, ReplaceNewline(formatError(err)))
             /\ doneCode' = 1
             /\ taskState' = "done"

\* lines 62-75: open() resumes after `await this.getCargoArtifacts(...)`; a rejection
\* is wrapped at line 175 and caught at line 69
OpenResumes(settled) ==
    IF settled.status = "ok"
    THEN /\ taskArtifacts' = CollectedArtifacts
         /\ doneCode' = 0
         /\ taskState' = "done"
         /\ terminal' = terminal
    ELSE LET err == ErrorWithCause("Cargo invocation failed.", settled.value)
         IN  /\ taskArtifacts' = FailedArtifacts(err)
             /\ terminal' = Append(terminal, ReplaceNewline(formatError(err)))
             /\ doneCode' = 1
             /\ taskState' = "done"

\* lines 201-278: getLaunchConfigs resumes after `await this.runCargo(...)`
LaunchResumes(settled) == launch' = LaunchOutcome(settled, metadata, directory)

\* the promise settles and, in the same turn of the event loop, its awaiter resumes
Settled(settled) ==
    /\ promise' = settled
    /\ IF callbacks = "getCargoArtifacts"
       THEN OpenResumes(settled) /\ UNCHANGED launch
       ELSE LaunchResumes(settled) /\ UNCHANGED <<taskArtifacts, doneCode, taskState, terminal>>

NotSettled == UNCHANGED <<promise, taskArtifacts, doneCode, taskState, terminal, launch>>

\* faulty variant: a second call of resolve or reject replaces the outcome and resumes the
\* awaiter again
EmitOverwrites(event, value) ==
    IF ProcessListeners[event] = "none"
    THEN NotSettled
    ELSE Settled(IF ProcessListeners[event] = "resolve" THEN Ok(value) ELSE Fail(value))

\* the child process emits `event`: the listener of lines 300 / 320-322 runs; resolve
\* and reject have no effect on a promise that is already settled
Emit(event, value) ==
    IF ProcessListeners[event] = "none" \/ promise # Pending
    THEN NotSettled
    ELSE Settled(IF ProcessListeners[event] = "resolve" THEN Ok(value) ELSE Fail(value))

\* lines 293-298: the promise is created and the process spawned; the spawn either
\* starts the process or fails, which the 'error' event reports later
Spawn(args, who) ==
    /\ callbacks' = who
    /\ spawnArgs' = SpawnArgv(args)
    /\ spawned' = Append(spawned, SpawnArgv(args))
    /\ promise' = Pending
    /\ \/ proc' = "running" /\ spawnError' = ""
       \/ proc' = "failed" /\ spawnError' \in SpawnErrors

\* faulty variant: line 152 / 161 puts a new artifact at the front of the accumulator, and
\* a diagnostic is forwarded ahead of the earlier ones
OnStdoutJsonPrepend(values) ==
    IF callbacks = "getCargoArtifacts"
    THEN LET effect == IF values = <<>> THEN [push |-> <<>>, say |-> <<>>]
                       ELSE OnCargoMessage(values[1])
         IN  /\ artifacts' = effect.push \o artifacts
             /\ sink' = effect.say \o sink
             /\ terminal' = terminal \o [i \in 1..Len(effect.say) |->
                                            ReplaceNewline(effect.say[i])]
             /\ UNCHANGED metadata
    ELSE /\ metadata' = IF values = <<>> THEN metadata ELSE Object(values[1])
         /\ UNCHANGED <<artifacts, sink, terminal>>

\* lines 143-171 and line 198: the onStdoutJson callbacks of the two callers
OnStdoutJson(values) ==
    IF callbacks = "getCargoArtifacts"
    THEN LET effect == IF values = <<>> THEN [push |-> <<>>, say |-> <<>>]
                       ELSE OnCargoMessage(values[1])
         IN  /\ artifacts' = artifacts \o effect.push
             /\ sink' = sink \o effect.say
             /\ terminal' = terminal \o [i \in 1..Len(effect.say) |->
                                            ReplaceNewline(effect.say[i])]
             /\ UNCHANGED metadata
    ELSE /\ metadata' = IF values = <<>> THEN metadata ELSE Object(values[1])
         /\ UNCHANGED <<artifacts, sink, terminal>>

\* line 172 (onMessage, with line 66) and line 199: the onStderrString callbacks
OnStderrString(chunk) ==
    IF callbacks = "getCargoArtifacts"
    THEN /\ sink' = Append(sink, chunk)
         /\ terminal' = Append(terminal, ReplaceNewline(chunk))
    ELSE UNCHANGED <<sink, terminal>>

----------------------------------------------------------------------------
(* The child process and the events of runCargo *)

\* the process writes a line to its stdout pipe
ProcessWritesStdout ==
    /\ proc = "running"
    /\ Len(stdoutSent) < MaxLines
    /\ \E line \in StdoutLines : stdoutSent' = Append(stdoutSent, line)
    /\ UNCHANGED <<programVars, collectVars, launchVars, schemaVars, proc, spawnArgs, spawned,
                   spawnError, exitCode, stdoutRead, stderrSent, stderrRead, promise,
                   callbacks, uncaught, cancelled, sigints>>

\* the process writes a chunk to its stderr pipe
ProcessWritesStderr ==
    /\ proc = "running"
    /\ Len(stderrSent) < MaxChunks
    /\ \E chunk \in StderrChunks : stderrSent' = Append(stderrSent, chunk)
    /\ UNCHANGED <<programVars, collectVars, launchVars, schemaVars, proc, spawnArgs, spawned,
                   spawnError, exitCode, stdoutSent, stdoutRead, stderrRead, promise,
                   callbacks, uncaught, cancelled, sigints>>

\* lines 306-318: readline delivers the next line of the pipe
StdoutLine ==
    /\ proc \in {"running", "exited"}
    /\ stdoutRead < Len(stdoutSent)
    /\ LET got == OnLine(stdoutSent[stdoutRead + 1])
       IN  /\ uncaught' = uncaught \o got.raise
           /\ OnStdoutJson(got.pass)
    /\ stdoutRead' = stdoutRead + 1
    /\ UNCHANGED <<pc, configArgs, taskArgs, filter, taskArtifacts, taskState, doneCode,
                   listener, program, directory, launch, schemaVars, proc, spawnArgs, spawned,
                   spawnError, exitCode, stdoutSent, stderrSent, stderrRead, promise,
                   callbacks, cancelled, sigints>>

\* lines 302-304: the next chunk of stderr arrives
StderrData ==
    /\ proc \in {"running", "exited"}
    /\ stderrRead < Len(stderrSent)
    /\ OnStderrString(stderrSent[stderrRead + 1])
    /\ stderrRead' = stderrRead + 1
    /\ UNCHANGED <<pc, configArgs, taskArgs, filter, taskArtifacts, taskState, doneCode,
                   listener, program, artifacts, launchVars, schemaVars, proc, spawnArgs, spawned,
                   spawnError, exitCode, stdoutSent, stdoutRead, stderrSent, promise,
                   callbacks, uncaught, cancelled, sigints>>

\* the process ends, with an exit code or killed by a signal: the 'exit' event, which
\* may come while the pipes still hold data
ProcessExits ==
    /\ proc = "running"
    /\ \E code \in ExitCodes :
          /\ exitCode' = code
          /\ Emit("exit", code)
    /\ proc' = "exited"
    /\ UNCHANGED <<pc, configArgs, taskArgs, filter, listener, program, collectVars,
                   directory, metadata, schemaVars, spawnArgs, spawned, spawnError, stdoutSent,
                   stdoutRead, stderrSent, stderrRead, callbacks, uncaught, cancelled,
                   sigints>>

\* line 300: the spawn failed, the 'error' event
SpawnFails ==
    /\ proc = "failed"
    /\ proc' = "errored"
    /\ exitCode' = Num(-2)
    /\ Emit("error", SystemError(spawnError))
    /\ UNCHANGED <<pc, configArgs, taskArgs, filter, listener, program, collectVars,
                   directory, metadata, schemaVars, spawnArgs, spawned, spawnError, stdoutSent,
                   stdoutRead, stderrSent, stderrRead, callbacks, uncaught, cancelled,
                   sigints>>

\* lines 320-322: the 'close' event, emitted once the process has ended and both of
\* its pipes have been read to their end
ProcessCloses ==
    /\ proc \in {"exited", "errored"}
    /\ stdoutRead = Len(stdoutSent)
    /\ stderrRead = Len(stderrSent)
    /\ proc' = "closed"
    /\ Emit("close", exitCode)
    /\ UNCHANGED <<pc, configArgs, taskArgs, filter, listener, program, collectVars,
                   directory, metadata, schemaVars, spawnArgs, spawned, spawnError, exitCode,
                   stdoutSent, stdoutRead, stderrSent, stderrRead, callbacks, uncaught,
                   cancelled, sigints>>

\* faulty variant: the cancellation listener also rejects the promise
RequestCancelRejects ==
    /\ proc # "none"
    /\ ~cancelled
    /\ cancelled' = TRUE
    /\ sigints' = sigints + 1
    /\ IF promise = Pending THEN Settled(Fail(Error("Canceled"))) ELSE NotSettled
    /\ UNCHANGED <<pc, configArgs, taskArgs, filter, listener, program, collectVars,
                   directory, metadata, schemaVars, proc, spawnArgs, spawned, spawnError, exitCode,
                   stdoutSent, stdoutRead, stderrSent, stderrRead, callbacks, uncaught>>

\* lines 324-326: cancellation is requested, the listener sends SIGINT
RequestCancel ==
    /\ proc # "none"
    /\ ~cancelled
    /\ cancelled' = TRUE
    /\ sigints' = sigints + 1
    /\ UNCHANGED <<programVars, collectVars, launchVars, schemaVars, proc, spawnArgs, spawned,
                   spawnError, exitCode, stdoutSent, stdoutRead, stderrSent, stderrRead,
                   promise, callbacks, uncaught>>

\* line 300: the child-process object emits 'error' after its 'close' event
ErrorAfterClose ==
    /\ proc = "closed"
    /\ spawnError = ""
    /\ proc' = "closedThenErrored"
    /\ Emit("error", SystemError("EPERM"))
    /\ UNCHANGED <<pc, configArgs, taskArgs, filter, listener, program, collectVars,
                   directory, metadata, schemaVars, spawnArgs, spawned, spawnError, exitCode,
                   stdoutSent, stdoutRead, stderrSent, stderrRead, callbacks, uncaught,
                   cancelled, sigints>>

NextProcess ==
    \/ ProcessWritesStdout
    \/ ProcessWritesStderr
    \/ StdoutLine
    \/ StderrData
    \/ ProcessExits
    \/ SpawnFails
    \/ ProcessCloses
    \/ RequestCancel

----------------------------------------------------------------------------
(* getProgramFromCargoConfig (lines 41-101): steps *)

\* lines 82-86: the task is created and handed to tasks.executeTask; the host passes
\* the task callback its own copy of the definition
ExecuteTask ==
    /\ pc = "start"
    /\ pc' = "executing"
    /\ taskState' = "created"
    /\ taskArgs' = configArgs
    /\ UNCHANGED <<configArgs, filter, taskArtifacts, doneCode, listener, terminal, program,
                   collectVars, procVars, launchVars, schemaVars>>

\* lines 86-95: executeTask has returned, the listener for the end of the task is added
SubscribeEndTask ==
    /\ pc = "executing"
    /\ pc' = "waiting"
    /\ listener' = TRUE
    /\ UNCHANGED <<configArgs, taskArgs, filter, taskArtifacts, taskState, doneCode,
                   terminal, program, collectVars, procVars, launchVars, schemaVars>>

\* lines 53-67, 140-142 and 293-298: the host opens the pseudoterminal; open() inserts
\* the flags, writes the banner and calls getCargoArtifacts(taskDef.args, ...), which
\* starts runCargo
Open ==
    /\ taskState = "created"
    /\ taskState' = "open"
    /\ LET cargoArgs == IF taskArgs.present THEN taskArgs.list ELSE <<>>
           spliced   == WithFlags(cargoArgs)
       IN  /\ taskArgs' = IF taskArgs.present THEN ArgList(spliced) ELSE taskArgs
           /\ terminal' = Append(terminal, Banner(spliced))
    /\ configArgs' = CallerArgs(configArgs, taskArgs')
    /\ artifacts' = <<>>
    /\ Spawn(taskArgs', "getCargoArtifacts")
    /\ UNCHANGED <<pc, filter, taskArtifacts, doneCode, listener, program, sink,
                   exitCode, stdoutSent, stdoutRead, stderrSent, stderrRead, uncaught,
                   cancelled, sigints, launchVars, schemaVars>>

\* lines 89-100: the host reports the end of the task (after doneEmitter.fire); the
\* listener, when it is there, resolves the wait and the function returns or throws
DidEndTask ==
    /\ taskState = "done"
    /\ taskState' = "ended"
    /\ IF listener
       THEN pc' = "done" /\ program' = ReturnValue
       ELSE UNCHANGED <<pc, program>>
    /\ UNCHANGED <<configArgs, taskArgs, filter, taskArtifacts, doneCode, listener, terminal,
                   collectVars, procVars, launchVars, schemaVars>>

\* lines 41-45: the first call has completed and its process is closed; the caller calls
\* getProgramFromCargoConfig again with the same cargoConfig object
CallAgain ==
    /\ pc = "done"
    /\ proc = "closed"
    /\ Len(spawned) < MaxRuns
    /\ pc' = "start"
    /\ taskArgs' = AbsentArgs
    /\ taskArtifacts' = InitialArtifacts
    /\ taskState' = "none"
    /\ doneCode' = -1
    /\ listener' = FALSE
    /\ terminal' = <<>>
    /\ program' = Pending
    /\ artifacts' = <<>>
    /\ sink' = <<>>
    /\ proc' = "none"
    /\ spawnArgs' = <<>>
    /\ spawnError' = ""
    /\ exitCode' = Undefined
    /\ stdoutSent' = <<>>
    /\ stdoutRead' = 0
    /\ stderrSent' = <<>>
    /\ stderrRead' = 0
    /\ promise' = Pending
    /\ callbacks' = "none"
    /\ uncaught' = <<>>
    /\ UNCHANGED <<configArgs, filter, spawned, cancelled, sigints, launchVars, schemaVars>>

----------------------------------------------------------------------------
(* getLaunchConfigs (lines 180-279): steps *)

\* lines 190-200: runCargo is started for `cargo metadata`
GetLaunchConfigs ==
    /\ pc = "launch"
    /\ proc = "none"
    /\ metadata' = Null
    /\ Spawn(MetadataArgs, "getLaunchConfigs")
    /\ UNCHANGED <<programVars, collectVars, directory, launch, schemaVars, exitCode,
                   stdoutSent, stdoutRead, stderrSent, stderrRead, uncaught, cancelled,
                   sigints>>

----------------------------------------------------------------------------
(* One compiler-artifact message, written in the new and in the old schema *)

\* new schema: the `executable` field is there (a path or null), next to `filenames`
NewSchemaMessage(out) ==
    CompilerArtifact(out.name, out.kind, out.crate_types, out.test,
                     out.executable, out.filenames)

\* old schema: no `executable` field
OldSchemaMessage(out) ==
    CompilerArtifact(out.name, out.kind, out.crate_types, out.test,
                     Undefined, out.filenames)

\* lines 143-167 on the new-schema message
HandleNewSchema ==
    /\ "new" \notin fed
    /\ fed' = fed \cup {"new"}
    /\ newArts' = OnCargoMessage(NewSchemaMessage(buildOut)).push
    /\ UNCHANGED <<programVars, collectVars, procVars, launchVars, buildOut, oldArts>>

\* lines 143-167 on the old-schema message
HandleOldSchema ==
    /\ "old" \notin fed
    /\ fed' = fed \cup {"old"}
    /\ oldArts' = OnCargoMessage(OldSchemaMessage(buildOut)).push
    /\ UNCHANGED <<programVars, collectVars, procVars, launchVars, buildOut, newArts>>

----------------------------------------------------------------------------
(* Initial states and specifications *)

NoFilter == [present |-> FALSE, name |-> Undefined, kind |-> Undefined]

NoBuildOut ==
    [name |-> "", kind |-> <<>>, crate_types |-> <<>>, test |-> FALSE,
     executable |-> Null, filenames |-> <<>>]

ProgramIdle ==
    /\ pc = "idle"
    /\ configArgs = AbsentArgs
    /\ taskArgs = AbsentArgs
    /\ filter = NoFilter
    /\ taskArtifacts = InitialArtifacts
    /\ taskState = "none"
    /\ doneCode = -1
    /\ listener = FALSE
    /\ terminal = <<>>
    /\ program = Pending

CollectIdle == artifacts = <<>> /\ sink = <<>>

ProcessIdle ==
    /\ proc = "none"
    /\ spawnArgs = <<>>
    /\ spawned = <<>>
    /\ spawnError = ""
    /\ exitCode = Undefined
    /\ stdoutSent = <<>>
    /\ stdoutRead = 0
    /\ stderrSent = <<>>
    /\ stderrRead = 0
    /\ promise = Pending
    /\ callbacks = "none"
    /\ uncaught = <<>>
    /\ cancelled = FALSE
    /\ sigints = 0

LaunchIdle == directory = Undefined /\ metadata = Null /\ launch = Pending

SchemaIdle == buildOut = NoBuildOut /\ newArts = <<>> /\ oldArts = <<>> /\ fed = {}

\* ---- getProgramFromCargoConfig from its call to its return

ProgramArgs    == {AbsentArgs, ArgList(<<"build", "--", "-v">>)}
ProgramFilters == {NoFilter, [present |-> TRUE, name |-> Str("foo"), kind |-> Undefined]}

Init ==
    /\ pc = "start"
    /\ configArgs \in ProgramArgs
    /\ taskArgs = AbsentArgs
    /\ filter \in ProgramFilters
    /\ taskArtifacts = InitialArtifacts
    /\ taskState = "none"
    /\ doneCode = -1
    /\ listener = FALSE
    /\ terminal = <<>>
    /\ program = Pending
    /\ CollectIdle /\ ProcessIdle /\ LaunchIdle /\ SchemaIdle

Next ==
    \/ ExecuteTask
    \/ SubscribeEndTask
    \/ Open
    \/ DidEndTask
    \/ NextProcess

Spec == Init /\ [][Next]_vars

\* ---- the argument list, from the caller to the spawned process

ArgWords == {"build", "--", "-v"}

InitArgs ==
    /\ pc = "start"
    /\ configArgs \in {AbsentArgs} \cup {ArgList(l) : l \in SeqUpTo(ArgWords, MaxArgs)}
    /\ taskArgs = AbsentArgs
    /\ filter = NoFilter
    /\ taskArtifacts = InitialArtifacts
    /\ taskState = "none"
    /\ doneCode = -1
    /\ listener = FALSE
    /\ terminal = <<>>
    /\ program = Pending
    /\ CollectIdle /\ ProcessIdle /\ LaunchIdle /\ SchemaIdle

NextArgs == ExecuteTask \/ SubscribeEndTask \/ Open

SpecArgs == InitArgs /\ [][NextArgs]_vars

\* ---- getProgramFromCargoConfig called again with the same configuration

NextTwice ==
    \/ ExecuteTask
    \/ SubscribeEndTask
    \/ Open
    \/ SpawnFails
    \/ ProcessExits
    \/ ProcessCloses
    \/ DidEndTask
    \/ CallAgain

SpecTwice == InitArgs /\ [][NextTwice]_vars

\* ---- getProgramFromArtifacts on every candidate list and filter

ArtifactPool ==
    {[fileName |-> f, name |-> n, kind |-> Str(k)] :
        f \in {FooPath, BarPath}, n \in {"foo", "bar"}, k \in {"bin", "test"}}

FilterPool ==
    {NoFilter} \cup
    {[present |-> TRUE, name |-> n, kind |-> k] :
        n \in {Undefined, Str("foo"), Str("bar")},
        k \in {Undefined, Str("bin"), Str("test")}}

InitResolve ==
    /\ pc = "waiting"
    /\ configArgs = ArgList(<<"build">>)
    /\ taskArgs = ArgList(WithFlags(<<"build">>))
    /\ filter \in FilterPool
    /\ taskArtifacts = CollectedArtifacts
    /\ taskState = "done"
    /\ doneCode = 0
    /\ listener = TRUE
    /\ terminal = <<Banner(WithFlags(<<"build">>))>>
    /\ program = Pending
    /\ artifacts \in SeqUpTo(ArtifactPool, MaxArtifacts)
    /\ sink = <<>>
    /\ proc = "closed"
    /\ spawnArgs = WithFlags(<<"build">>)
    /\ spawned = <<spawnArgs>>
    /\ spawnError = ""
    /\ exitCode = Num(0)
    /\ stdoutSent = <<>>
    /\ stdoutRead = 0
    /\ stderrSent = <<>>
    /\ stderrRead = 0
    /\ promise = Ok(Num(0))
    /\ callbacks = "getCargoArtifacts"
    /\ uncaught = <<>>
    /\ cancelled = FALSE
    /\ sigints = 0
    /\ LaunchIdle /\ SchemaIdle

NextResolve == DidEndTask

SpecResolve == InitResolve /\ [][NextResolve]_vars

\* ---- the artifact callback on one message in both schemas

\* the targets cargo reports: kind and crate_types agree for a library; a binary, an
\* example, a test and a build script are compiled as crate type bin; a test target is
\* always built with the test profile and a build script never
TargetPool ==
    {[kind |-> <<"bin">>,           crate_types |-> <<"bin">>,           tests |-> BOOLEAN],
     [kind |-> <<"example">>,       crate_types |-> <<"bin">>,           tests |-> BOOLEAN],
     [kind |-> <<"test">>,          crate_types |-> <<"bin">>,           tests |-> {TRUE}],
     [kind |-> <<"custom-build">>,  crate_types |-> <<"bin">>,           tests |-> {FALSE}],
     [kind |-> <<"lib">>,           crate_types |-> <<"lib">>,           tests |-> BOOLEAN],
     [kind |-> <<"rlib", "dylib">>, crate_types |-> <<"rlib", "dylib">>, tests |-> BOOLEAN]}

FilePool == {FooPath, <<"target/debug/", "foo", ".dSYM">>, <<"target/debug/", "libfoo", ".rlib">>}

BuildOutputs ==
    {[name |-> "foo", kind |-> tg.kind, crate_types |-> tg.crate_types, test |-> t,
      executable |-> e, filenames |-> fs] :
        tg \in TargetPool, t \in BOOLEAN,
        e \in {Null} \cup {Str(f) : f \in FilePool}, fs \in SeqUpTo(FilePool, MaxFiles)}

\* the profile is one the target is built with; the executable of a build output is one
\* of its files, and not a .dSYM bundle
WellFormedOutput(out) ==
    /\ \E tg \in TargetPool :
          tg.kind = out.kind /\ tg.crate_types = out.crate_types /\ out.test \in tg.tests
    /\ \/ out.executable = Null
       \/ /\ out.executable.val \in Range(out.filenames)
          /\ ~EndsWith(out.executable.val, DSYM)

InitSchema ==
    /\ ProgramIdle /\ CollectIdle /\ ProcessIdle /\ LaunchIdle
    /\ buildOut \in {out \in BuildOutputs : WellFormedOutput(out)}
    /\ newArts = <<>>
    /\ oldArts = <<>>
    /\ fed = {}

NextSchema == HandleNewSchema \/ HandleOldSchema

SpecSchema == InitSchema /\ [][NextSchema]_vars

\* ---- getLaunchConfigs from its call to its return

InitLaunch ==
    /\ pc = "launch"
    /\ configArgs = AbsentArgs
    /\ taskArgs = AbsentArgs
    /\ filter = NoFilter
    /\ taskArtifacts = InitialArtifacts
    /\ taskState = "none"
    /\ doneCode = -1
    /\ listener = FALSE
    /\ terminal = <<>>
    /\ program = Pending
    /\ CollectIdle /\ ProcessIdle /\ SchemaIdle
    /\ directory \in {Undefined, Str("/ws/sub")}
    /\ metadata = Null
    /\ launch = Pending

NextLaunch == GetLaunchConfigs \/ NextProcess

SpecLaunch == InitLaunch /\ [][NextLaunch]_vars

\* ---- getProgramFromCargoConfig for a `cargo test --no-run` build

InitCollect ==
    /\ pc = "start"
    /\ configArgs = ArgList(<<"test", "--no-run">>)
    /\ taskArgs = AbsentArgs
    /\ filter = NoFilter
    /\ taskArtifacts = InitialArtifacts
    /\ taskState = "none"
    /\ doneCode = -1
    /\ listener = FALSE
    /\ terminal = <<>>
    /\ program = Pending
    /\ CollectIdle /\ ProcessIdle /\ LaunchIdle /\ SchemaIdle

SpecCollect == InitCollect /\ [][Next]_vars

\* ---- runCargo when the child-process object emits 'error' and 'close' in either order

NextEvents == Next \/ ErrorAfterClose

SpecEvents == InitCollect /\ [][NextEvents]_vars

\* ---- getLaunchConfigs on every metadata document: cargo metadata has written the
\* document and ended with exit code 0, the 'close' event is due

\* the kinds of the switch of lines 238-273, and one it has no case for
TargetKinds == LibraryKinds \cup {"bin", "example", "bench", "test", "custom-build"}

HelperTargets == {[name |-> "helper", kind |-> <<"lib">>],
                  [name |-> "helper", kind |-> <<"example">>]}

UtilPackage == [name |-> "util", targets |-> <<[name |-> "util", kind |-> <<"bin">>]>>]

\* package demo with a target of any kind list and maybe a second target, and maybe a
\* second package
MetadataDocs ==
    {[packages |-> <<[name    |-> "demo",
                      targets |-> <<[name |-> "demo", kind |-> ks]>> \o more]>> \o rest] :
        ks \in SeqUpTo(TargetKinds, MaxKinds),
        more \in {<<>>} \cup {<<t>> : t \in HelperTargets},
        rest \in {<<>>, <<UtilPackage>>}}

MetadataLine(doc) == JsonLine(<<"{", "\"packages\":[", "...", "]}">>, doc)

InitConfigs ==
    /\ pc = "launch"
    /\ configArgs = AbsentArgs
    /\ taskArgs = AbsentArgs
    /\ filter = NoFilter
    /\ taskArtifacts = InitialArtifacts
    /\ taskState = "none"
    /\ doneCode = -1
    /\ listener = FALSE
    /\ terminal = <<>>
    /\ program = Pending
    /\ CollectIdle /\ SchemaIdle
    /\ directory \in {Undefined, Str("/ws/sub")}
    /\ \E doc \in MetadataDocs :
          /\ metadata = Object(doc)
          /\ stdoutSent = <<MetadataLine(doc)>>
    /\ launch = Pending
    /\ proc = "exited"
    /\ spawnArgs = MetadataArgs.list
    /\ spawned = <<spawnArgs>>
    /\ spawnError = ""
    /\ exitCode = Num(0)
    /\ stdoutRead = 1
    /\ stderrSent = <<>>
    /\ stderrRead = 0
    /\ promise = Pending
    /\ callbacks = "getLaunchConfigs"
    /\ uncaught = <<>>
    /\ cancelled = FALSE
    /\ sigints = 0

NextConfigs == ProcessCloses

SpecConfigs == InitConfigs /\ [][NextConfigs]_vars

----------------------------------------------------------------------------
(* Properties *)

Delivered == SubSeq(stdoutSent, 1, stdoutRead)

\* a line that looks like JSON and is not
Malformed(line) == StartsWithBrace(line) /\ line.json.status # "ok"

\* what getCargoArtifacts collects and forwards when the 'line' listener is given
\* exactly these lines, in this order
RECURSIVE Produced(_)
Produced(lines) ==
    IF lines = <<>> THEN [push |-> <<>>, say |-> <<>>]
    ELSE LET got    == OnLine(Head(lines))
             effect == IF got.pass = <<>> THEN [push |-> <<>>, say |-> <<>>]
                       ELSE OnCargoMessage(got.pass[1])
             rest   == Produced(Tail(lines))
         IN  [push |-> effect.push \o rest.push, say |-> effect.say \o rest.say]

\* the texts of the sink that came from stdout (no stderr chunk is a rendered message)
StdoutTexts == SelectSeq(sink, LAMBDA t : t \notin StderrChunks)

\* the indexes of the candidates that equal every set field of the filter
MatchingIndexes ==
    {i \in 1..Len(artifacts) :
        /\ (filter.present /\ filter.name # Undefined) => Str(artifacts[i].name) = filter.name
        /\ (filter.present /\ filter.kind # Undefined) => artifacts[i].kind = filter.kind}

\* C1: getProgramFromArtifacts returns the file of the one candidate that matches the
\* filter, fails with the no-match error when none matches, and with the
\* ambiguous-match error when two or more match.
C1_ResolveUnique ==
    pc = "done" =>
        /\ Cardinality(MatchingIndexes) = 1 =>
              \E i \in MatchingIndexes : program = Ok(artifacts[i].fileName)
        /\ Cardinality(MatchingIndexes) = 0 => program = Fail(NoMatchError)
        /\ Cardinality(MatchingIndexes) >= 2 => program = Fail(AmbiguousError)

\* C1 witness: three candidates, a filter with both fields set, exactly one match and
\* it is not the first candidate.
C1_Witness ==
    /\ pc = "done"
    /\ Len(artifacts) = 3
    /\ filter.present /\ filter.name # Undefined /\ filter.kind # Undefined
    /\ MatchingIndexes = {3}
    /\ program = Ok(artifacts[3].fileName)
    /\ artifacts[1].fileName # artifacts[3].fileName

\* the message names an output file the callback can turn into an artifact
HasOutput(message) ==
    IF message.executable # Undefined
    THEN message.executable # Null
    ELSE \E i \in 1..Len(message.filenames) : ~EndsWith(message.filenames[i], DSYM)

KindGate(out)  == (Includes(out.kind, "bin") /\ ~Includes(out.kind, "custom-build")) \/ out.test
CrateGate(out) ==
    (Includes(out.crate_types, "bin") /\ ~Includes(out.kind, "custom-build")) \/ out.test

\* C2 as stated: a message that names an output file yields an artifact exactly when
\* (target.kind contains bin and not custom-build) or profile.test.
C2_GateByKind ==
    /\ ("new" \in fed /\ HasOutput(NewSchemaMessage(buildOut)))
          => (newArts # <<>> <=> KindGate(buildOut))
    /\ ("old" \in fed /\ HasOutput(OldSchemaMessage(buildOut)))
          => (oldArts # <<>> <=> KindGate(buildOut))

\* C2 amended: a message yields artifacts only if (target.crate_types contains bin and
\* target.kind does not contain custom-build) or profile.test, and then it yields one
\* whenever it names an output file.
C2_GateByCrateType ==
    /\ "new" \in fed =>
          /\ newArts # <<>> => CrateGate(buildOut)
          /\ HasOutput(NewSchemaMessage(buildOut)) /\ CrateGate(buildOut) => newArts # <<>>
    /\ "old" \in fed =>
          /\ oldArts # <<>> => CrateGate(buildOut)
          /\ HasOutput(OldSchemaMessage(buildOut)) /\ CrateGate(buildOut) => oldArts # <<>>

\* C2 witness: an example target (kind example, crate type bin) outside the test
\* profile has been handled and has contributed an artifact.
C2_Witness ==
    /\ "new" \in fed
    /\ buildOut.kind = <<"example">>
    /\ buildOut.crate_types = <<"bin">>
    /\ ~buildOut.test
    /\ newArts # <<>>

\* C3: once runCargo has resolved with the exit code, every stdout line and every
\* stderr chunk the process wrote has been delivered to the callbacks.
C3_ResolvedAfterDrain ==
    promise.status = "ok" =>
        /\ stdoutRead = Len(stdoutSent)
        /\ stderrRead = Len(stderrSent)
        /\ artifacts = Produced(stdoutSent).push

\* C3 witness: the promise resolved for a process that wrote two stdout lines, one of
\* them an artifact, and a stderr chunk.
C3_Witness ==
    /\ promise.status = "ok"
    /\ Len(stdoutSent) = 2
    /\ Len(stderrSent) = 1
    /\ Len(artifacts) >= 1

\* C4: getProgramFromCargoConfig never returns a program path from a build whose
\* process ended abnormally (non-zero exit code, or killed by a signal).
C4_NoProgramFromFailedBuild ==
    (pc = "done" /\ exitCode # Num(0)) => program.status = "error"

\* C5 as stated: every delivered stdout line that does not begin with "{" has been
\* forwarded unmodified to the diagnostic sink.
C5_PlainLinesForwarded ==
    \A i \in 1..stdoutRead :
        ~StartsWithBrace(stdoutSent[i]) => stdoutSent[i].text \in Range(sink)

\* C5 amended: a stdout line that does not begin with "{" is dropped: it reaches
\* neither the JSON callback nor the sink, so the run collects and forwards what it
\* would without those lines.
C5_PlainLinesDropped ==
    LET braced == SelectSeq(Delivered, StartsWithBrace)
    IN  /\ \A i \in 1..stdoutRead :
              ~StartsWithBrace(stdoutSent[i]) => stdoutSent[i].text \notin Range(sink)
        /\ artifacts = Produced(braced).push
        /\ StdoutTexts = Produced(braced).say

\* C5 witness: a plain text line and a line of valid JSON behind a leading blank were
\* both delivered.
C5_Witness ==
    /\ stdoutRead = 2
    /\ \E i \in 1..2 : stdoutSent[i] = PlainLine
    /\ \E i \in 1..2 : stdoutSent[i] = IndentedLine

\* C6: a line that begins with "{" and fails to parse is discarded: no error leaves
\* the listener or rejects the run, and the artifacts and diagnostics are those of the
\* stream without the malformed lines.
C6_MalformedDiscarded ==
    LET sound == SelectSeq(Delivered, LAMBDA l : ~Malformed(l))
    IN  /\ uncaught = <<>>
        /\ promise.status = "error" => promise.value = SystemError(spawnError)
        /\ artifacts = Produced(sound).push
        /\ StdoutTexts = Produced(sound).say

\* C6 witness: a malformed line was delivered, a valid artifact message after it, and
\* the artifact was collected.
C6_Witness ==
    /\ stdoutRead = 2
    /\ Malformed(stdoutSent[1])
    /\ stdoutSent[2] = ArtifactLine
    /\ Len(artifacts) = 1

\* C7 as stated: the new-schema and the old-schema message of one build output yield
\* the same artifacts.
C7_SchemasAgree ==
    fed = {"new", "old"} => newArts = oldArts

\* the build output is one file: `filenames` holds the executable first and after it
\* only .dSYM bundles, or there is no executable and only .dSYM bundles
SingleOutput(out) ==
    IF out.executable = Null
    THEN \A i \in 1..Len(out.filenames) : EndsWith(out.filenames[i], DSYM)
    ELSE /\ Len(out.filenames) >= 1
         /\ out.filenames[1] = out.executable.val
         /\ \A i \in 2..Len(out.filenames) : EndsWith(out.filenames[i], DSYM)

\* C7 amended: the two schemas yield the same artifacts when the build output is one
\* file (the executable first in `filenames`, followed only by .dSYM bundles).
C7_SchemasAgreeOnSingleOutput ==
    (fed = {"new", "old"} /\ SingleOutput(buildOut)) => newArts = oldArts

\* C7 witness: an executable with its .dSYM bundle has been handled in both schemas and
\* each yielded the one artifact.
C7_Witness ==
    /\ fed = {"new", "old"}
    /\ SingleOutput(buildOut)
    /\ Len(buildOut.filenames) = 2
    /\ Len(newArts) = 1
    /\ newArts = oldArts

\* a structured message was parsed from the delivered stdout lines
ParsedSome == \E i \in 1..stdoutRead : StartsWithBrace(stdoutSent[i]) /\ ~Malformed(stdoutSent[i])

\* C8: getLaunchConfigs returns the default descriptor when the executable was not
\* found and when the tool ended with a non-zero exit code, whatever was parsed.
C8_FallbackToDefault ==
    /\ (proc \in {"errored", "closed"} /\ spawnError = "ENOENT")
          => launch = Ok(DEFAULT_LAUNCH_CONFIGS)
    /\ (proc = "closed" /\ spawnError = "" /\ exitCode # Num(0))
          => launch = Ok(DEFAULT_LAUNCH_CONFIGS)

\* C8 witness: the tool wrote a metadata line, it was parsed, the tool ended with
\* exit code 101 and the default descriptor was returned.
C8_Witness ==
    /\ proc = "closed"
    /\ exitCode = Num(101)
    /\ ParsedSome
    /\ metadata # Null
    /\ launch = Ok(DEFAULT_LAUNCH_CONFIGS)

\* C9: getLaunchConfigs fails with the metadata error exactly when the tool ended with
\* exit code zero and no structured message was parsed; a spawn failure other than
\* "not found" is thrown as it is.
C9_MetadataError ==
    /\ launch = Fail(NoMetadataError)
          <=> (proc = "closed" /\ spawnError = "" /\ exitCode = Num(0) /\ ~ParsedSome)
    /\ (proc \in {"errored", "closed"} /\ spawnError \notin {"", "ENOENT"})
          => launch = Fail(SystemError(spawnError))

\* C9 witness: the tool wrote lines, none a structured message, ended with exit code
\* zero, and the metadata error was thrown.
C9_Witness ==
    /\ launch = Fail(NoMetadataError)
    /\ stdoutRead = 2
    /\ exitCode = Num(0)

\* the caller's list with the two flags before its first "--", or at its end
ExpectedArgv(args) ==
    LET list == IF args.present THEN args.list ELSE <<>>
        seps == {i \in 1..Len(list) : list[i] = "--"}
    IN  IF seps = {} THEN list \o InsertedFlags
        ELSE LET first == CHOOSE i \in seps : \A j \in seps : i <= j
             IN  SubSeq(list, 1, first - 1) \o InsertedFlags \o SubSeq(list, first, Len(list))

\* C10: the process is spawned with the caller's argument list (empty when absent) and
\* the two flags inserted before the first "--", or appended when there is none.
C10_SpawnedWithFlags ==
    proc # "none" => spawnArgs = ExpectedArgv(configArgs)

\* every target of the document, with the package that owns it
DocTargets ==
    IF metadata = Null THEN {}
    ELSE UNION {{[pkg |-> metadata.val.packages[p], target |-> metadata.val.packages[p].targets[t]] :
                    t \in 1..Len(metadata.val.packages[p].targets)} :
                p \in 1..Len(metadata.val.packages)}

HasLibraryKind(target) == \E k \in 1..Len(target.kind) : target.kind[k] \in LibraryKinds

LibraryConfigName(target) == <<"Debug unit tests in library '", target.name, "'">>

\* getLaunchConfigs has returned the descriptors it built from the document
ConfigsBuilt == launch.status = "ok" /\ metadata # Null /\ exitCode = Num(0)

\* C11: the descriptors hold exactly one 'Debug unit tests in library' entry for each
\* target that declares any of the kinds lib, rlib, staticlib, dylib, cstaticlib (however
\* many and in whatever order) and none for a target that declares none; a second
\* library target of the same package has its own entry.
C11_OneLibraryConfigPerTarget ==
    ConfigsBuilt =>
        \A dt \in DocTargets :
            Cardinality({i \in 1..Len(launch.value) :
                            launch.value[i].name = LibraryConfigName(dt.target)})
                = IF HasLibraryKind(dt.target) THEN 1 ELSE 0

\* C11 witness: the first target of package demo declares three library kinds, rlib
\* before lib, a second target of the package is a library too, and each has its entry.
C11_Witness ==
    /\ ConfigsBuilt
    /\ metadata.val.packages[1].targets[1].kind = <<"rlib", "lib", "dylib">>
    /\ Len(metadata.val.packages[1].targets) = 2
    /\ HasLibraryKind(metadata.val.packages[1].targets[2])
    /\ Cardinality({i \in 1..Len(launch.value) :
                       launch.value[i].name[1] = "Debug unit tests in library '"}) = 2

RECURSIVE Flatten(_)
Flatten(seqs) == IF seqs = <<>> THEN <<>> ELSE Head(seqs) \o Flatten(Tail(seqs))

\* the name and the owning package of the descriptors the k-th kind entry of a target
\* stands for; a library kind counts once per target, at its first occurrence
ExpectedOfKind(pkg, target, k) ==
    LET kind  == target.kind[k]
        label == CASE kind = "bin"     -> "executable"
                   [] kind = "example" -> "example"
                   [] kind = "bench"   -> "benchmark"
                   [] kind = "test"    -> "integration test"
                   [] OTHER            -> kind
        entry(name) == [name |-> name, package |-> <<"--package=", pkg.name>>]
    IN  IF kind \in {"bin", "example"}
        THEN <<entry(<<"Debug ", label, " '", target.name, "'">>),
               entry(<<"Debug unit tests in ", label, " '", target.name, "'">>)>>
        ELSE IF kind \in {"bench", "test"}
        THEN <<entry(<<"Debug ", label, " '", target.name, "'">>)>>
        ELSE IF /\ kind \in {"lib", "rlib", "staticlib", "dylib", "cstaticlib"}
                /\ \A j \in 1..(k - 1) :
                       target.kind[j] \notin {"lib", "rlib", "staticlib", "dylib", "cstaticlib"}
        THEN <<entry(LibraryConfigName(target))>>
        ELSE <<>>

ExpectedOfTarget(pkg, target) ==
    Flatten([k \in 1..Len(target.kind) |-> ExpectedOfKind(pkg, target, k)])

ExpectedOfPackage(pkg) ==
    Flatten([t \in 1..Len(pkg.targets) |-> ExpectedOfTarget(pkg, pkg.targets[t])])

ExpectedConfigs(doc) ==
    Flatten([p \in 1..Len(doc.packages) |-> ExpectedOfPackage(doc.packages[p])])

\* the name of each returned descriptor and the last of its build arguments
BuiltConfigs ==
    [i \in 1..Len(launch.value) |->
        [name    |-> launch.value[i].name,
         package |-> launch.value[i].cargo.args[Len(launch.value[i].cargo.args)]]]

\* C12: in package, target, kind order the descriptors are: for a bin or example entry
\* the direct-debug one and then the unit-tests one (bin labelled executable), for a
\* bench or test entry one (labelled benchmark / integration test), for a target with a
\* library kind one, and nothing for any other kind; the last build argument of each
\* selects the package that owns the target.
C12_ConfigsInTraversalOrder ==
    ConfigsBuilt => BuiltConfigs = ExpectedConfigs(metadata.val)

\* C12 witness: a target with the kinds bin, custom-build and test in package demo and
\* a second package util: three descriptors for demo, then the two of util.
C12_Witness ==
    /\ ConfigsBuilt
    /\ Len(metadata.val.packages) = 2
    /\ metadata.val.packages[1].targets = <<[name |-> "demo", kind |-> <<"bin", "custom-build", "test">>]>>
    /\ Len(launch.value) = 5
    /\ launch.value[3].name = <<"Debug ", "integration test", " '", "demo", "'">>
    /\ launch.value[3].cargo.args[4] = <<"--package=", "demo">>
    /\ launch.value[5].cargo.args[4] = <<"--package=", "util">>

\* the stderr chunks that reached the sink
StderrTexts == SelectSeq(sink, LAMBDA t : t \in StderrChunks)

\* everything delivered so far has been passed to the callbacks of getCargoArtifacts
DeliveredIsPassed ==
    /\ artifacts = Produced(Delivered).push
    /\ StdoutTexts = Produced(Delivered).say
    /\ StderrTexts = SubSeq(stderrSent, 1, stderrRead)

\* C13: once cancellation has been requested one SIGINT has been sent, and the request
\* settles nothing: the promise of a spawned process is settled only when the 'close'
\* event has come, with the exit code and with both pipes read to their end, and
\* whatever was delivered, before or after the request, has been passed to the callbacks.
C13_CancelIsAdvisory ==
    cancelled =>
        /\ sigints = 1
        /\ (spawnError = "" /\ promise # Pending)
              => /\ proc = "closed"
                 /\ promise = Ok(exitCode)
                 /\ stdoutRead = Len(stdoutSent)
                 /\ stderrRead = Len(stderrSent)
        /\ DeliveredIsPassed

\* C13 witness: cancellation was requested, the process was killed by the signal, two
\* stdout lines and a stderr chunk were delivered and the promise resolved at 'close'.
C13_Witness ==
    /\ cancelled
    /\ sigints = 1
    /\ proc = "closed"
    /\ promise = Ok(Null)
    /\ stdoutRead = 2
    /\ stderrRead = 1
    /\ Len(artifacts) >= 1

\* a stdout line the 'line' listener parses into a message with this reason
IsLineOf(line, reason) ==
    StartsWithBrace(line) /\ line.json.status = "ok" /\ line.json.value.reason = reason

\* the executables named by the compiler-artifact lines among `lines`, in their order
EmittedFiles(lines) ==
    LET sel == SelectSeq(lines, LAMBDA l : IsLineOf(l, "compiler-artifact"))
    IN  [i \in 1..Len(sel) |-> sel[i].json.value.executable.val]

\* the rendered texts of the compiler-message lines among `lines`, in their order
EmittedTexts(lines) ==
    LET sel == SelectSeq(lines, LAMBDA l : IsLineOf(l, "compiler-message"))
    IN  [i \in 1..Len(sel) |-> sel[i].json.value.rendered]

CollectedFiles == [i \in 1..Len(artifacts) |-> artifacts[i].fileName]

\* C14: the collected artifacts and the forwarded diagnostics are those of the delivered
\* compiler-artifact and compiler-message lines in the order the process wrote them,
\* and once the operation has settled, in success or in failure, the diagnostic of
\* every compiler-message line the process wrote has been forwarded.
C14_OrderKeptAndForwardedBeforeSettle ==
    /\ CollectedFiles = EmittedFiles(Delivered)
    /\ StdoutTexts = EmittedTexts(Delivered)
    /\ promise # Pending =>
          /\ CollectedFiles = EmittedFiles(stdoutSent)
          /\ StdoutTexts = EmittedTexts(stdoutSent)

\* C14 witness: the process wrote two different diagnostics and a stderr chunk, and
\* the operation resolved with both diagnostics forwarded in the order written.
C14_Witness ==
    /\ promise.status = "ok"
    /\ stdoutSent = <<NoteLine, MessageLine>>
    /\ StdoutTexts = <<NoteLine.json.value.rendered, MessageLine.json.value.rendered>>
    /\ Len(sink) = 3

\* the positions (one-based) of the files of `filenames` that are not .dSYM bundles
KeptPositions(out) == {i \in 1..Len(out.filenames) : ~EndsWith(out.filenames[i], DSYM)}

\* the j-th smallest of them
NthKept(out, j) ==
    CHOOSE i \in KeptPositions(out) : Cardinality({k \in KeptPositions(out) : k < i}) = j - 1

\* C15: from an old-schema message no file ending in .dSYM becomes an artifact, and the
\* artifacts are the other files in their order, each with the entry of target.kind at
\* the position its file has in filenames (undefined when target.kind is shorter).
C15_KindAtFileIndex ==
    "old" \in fed =>
        /\ \A j \in 1..Len(oldArts) : ~EndsWith(oldArts[j].fileName, DSYM)
        /\ CrateGate(buildOut) =>
              /\ Len(oldArts) = Cardinality(KeptPositions(buildOut))
              /\ \A j \in 1..Len(oldArts) :
                    LET i == NthKept(buildOut, j)
                    IN  /\ oldArts[j].fileName = buildOut.filenames[i]
                        /\ oldArts[j].kind = IF i <= Len(buildOut.kind)
                                              THEN Str(buildOut.kind[i])
                                              ELSE Undefined

\* C15 witness: filenames holds a .dSYM bundle and then the executable, target.kind has
\* one entry: the one artifact is the executable, and its kind is undefined.
C15_Witness ==
    /\ "old" \in fed
    /\ buildOut.kind = <<"bin">>
    /\ buildOut.filenames = <<<<"target/debug/", "foo", ".dSYM">>, FooPath>>
    /\ oldArts = <<[fileName |-> FooPath, name |-> "foo", kind |-> Undefined]>>

\* the error getCargoArtifacts throws for the spawn failure (line 175)
InvocationError == ErrorWithCause("Cargo invocation failed.", SystemError(spawnError))

\* C16: after a spawn failure (not found, or any other) no process runs and none is
\* started again, runCargo rejects with the spawn error, getCargoArtifacts fails with
\* the wrapped invocation error, and getProgramFromCargoConfig returns no path: when it
\* completes it fails with the task error caused by the invocation error.
C16_SpawnFailureNotRecovered ==
    spawnError # "" =>
        /\ proc \in {"failed", "errored", "closed"}
        /\ stdoutSent = <<>>
        /\ promise # Pending =>
              /\ promise = Fail(SystemError(spawnError))
              /\ taskArtifacts = FailedArtifacts(InvocationError)
              /\ doneCode = 1
        /\ program.status # "ok"
        /\ pc = "done" => program = Fail(ErrorWithCause("Cargo task failed.", InvocationError))

\* C16 witness: the executable was not found, the 'error' and 'close' events have come,
\* the task has ended and getProgramFromCargoConfig has failed.
C16_Witness ==
    /\ spawnError = "ENOENT"
    /\ proc = "closed"
    /\ pc = "done"
    /\ program.status = "error"
    /\ Len(program.value.causes) = 2

\* C17 as stated: the working directory of every descriptor is the project-root
\* placeholder when no directory is supplied and the supplied directory otherwise.
C17_CwdIsOverride ==
    ConfigsBuilt =>
        \A i \in 1..Len(launch.value) :
            launch.value[i].cwd = IF directory = Undefined THEN "${workspaceFolder}"
                                  ELSE directory.val

\* C17 amended: the working directory of every descriptor is the project-root
\* placeholder, with or without a supplied directory; a supplied directory is the
\* working directory of the descriptor's build invocation (cargo.cwd), which is not set
\* when none is supplied.
C17_OverrideIsBuildCwd ==
    ConfigsBuilt =>
        \A i \in 1..Len(launch.value) :
            /\ launch.value[i].cwd = "${workspaceFolder}"
            /\ launch.value[i].cargo.cwd = directory

\* C17 witness: descriptors were built with the directory /ws/sub supplied.
C17_Witness ==
    /\ ConfigsBuilt
    /\ directory = Str("/ws/sub")
    /\ Len(launch.value) >= 3
    /\ launch.value[3].cargo.cwd = Str("/ws/sub")
    /\ launch.value[3].cwd = "${workspaceFolder}"

\* how often the flag occurs in the argument vector
Occurrences(argv, flag) == Cardinality({k \in 1..Len(argv) : argv[k] = flag})

C19_ReturnsOnceTaskEnded ==
    (taskState = "ended" /\ proc = "closed" /\ listener) => pc = "done"

\* C20: a settled promise keeps its outcome and its awaiter is not resumed again; when
\* 'error' came first the outcome is that error, also after the 'close' that follows,
\* and when 'close' came first the outcome is the exit code, also after a later 'error'.
C20_SettlesOnce ==
    [][/\ promise # Pending =>
             (promise' = promise /\ taskArtifacts' = taskArtifacts /\ doneCode' = doneCode)
       /\ (proc' \in {"errored", "closed"} /\ spawnError' # "")
             => promise' = Fail(SystemError(spawnError'))
       /\ (proc' \in {"closed", "closedThenErrored"} /\ spawnError' = "")
             => promise' = Ok(exitCode')]_vars

\* C20 witness: the process ended with exit code 101, 'close' resolved the promise, an
\* 'error' event came after it and the outcome is still the exit code.
C20_Witness ==
    /\ proc = "closedThenErrored"
    /\ promise = Ok(Num(101))
    /\ doneCode = 0

====
